---- MODULE Spec2Model ----
(***************************************************************************)
(* Model of app/__init__.py: the Flask handler get_doc, its helpers        *)
(* get_user_language and get_error_messages, and the CustomError handler.  *)
(*                                                                         *)
(* Text is modelled as a sequence of characters, each character a          *)
(* one-character string; a non-ASCII character is named by its code point  *)
(* ("U+00E9").  The Cyrillic keys and messages of the source are           *)
(* transliterated, since the module is ASCII.                              *)
(***************************************************************************)
EXTENDS Integers, Sequences, FiniteSets, TLC

\* ---------------------------------------------------------------- bounds
MaxHeaderLen == 4       \* longest enumerated Accept-Language header
MaxArgLen == 3          \* longest enumerated query argument
MaxApprovals == 2       \* longest enumerated approval list

\* ------------------------------------------------------------ characters
\* The printable ASCII characters, code 32 to 126, in code order (the double
\* quote, the backslash and the backtick are named).
AsciiPrintable ==
    << " ", "!", "DQUOTE", "#", "$", "%", "&", "'", "(", ")", "*", "+", ",", "-", ".", "/",
       "0", "1", "2", "3", "4", "5", "6", "7", "8", "9", ":", ";", "<", "=", ">", "?",
       "@", "A", "B", "C", "D", "E", "F", "G", "H", "I", "J", "K", "L", "M", "N", "O",
       "P", "Q", "R", "S", "T", "U", "V", "W", "X", "Y", "Z", "[", "BACKSLASH", "]", "^", "_",
       "BACKTICK", "a", "b", "c", "d", "e", "f", "g", "h", "i", "j", "k", "l", "m", "n", "o",
       "p", "q", "r", "s", "t", "u", "v", "w", "x", "y", "z", "{", "|", "}", "~" >>

AsciiChars == { AsciiPrintable[i] : i \in 1..Len(AsciiPrintable) }

\* ord() and chr() on printable ASCII.
Ord(c) == 31 + (CHOOSE i \in 1..Len(AsciiPrintable) : AsciiPrintable[i] = c)

Chr(b) == AsciiPrintable[b - 31]

\* str.encode('utf-8') of one character.
Utf8(c) ==
    IF c \in AsciiChars THEN << Ord(c) >>
    ELSE IF c = "U+00E9" THEN << 195, 169 >>      \* e with acute accent
    ELSE IF c = "U+0414" THEN << 208, 148 >>      \* Cyrillic capital De
    ELSE << 239, 191, 189 >>                      \* U+FFFD

HexDigits == << "0", "1", "2", "3", "4", "5", "6", "7", "8", "9", "A", "B", "C", "D", "E", "F" >>

\* '%{:02X}'.format(b)
PercentByte(b) == << "%", HexDigits[(b \div 16) + 1], HexDigits[(b % 16) + 1] >>

\* The bytes urllib.parse.quote never escapes: letters, digits and "_.-~".
AlwaysSafe ==
    { Ord(AsciiPrintable[i]) : i \in { j \in 1..Len(AsciiPrintable) :
          \/ 48 <= j + 31 /\ j + 31 <= 57
          \/ 65 <= j + 31 /\ j + 31 <= 90
          \/ 97 <= j + 31 /\ j + 31 <= 122 } }
    \cup { Ord("_"), Ord("."), Ord("-"), Ord("~") }

\* quote() is called with its default safe='/'.
QuoteSafe == AlwaysSafe \cup { Ord("/") }

RECURSIVE QuoteBytes(_, _)
QuoteBytes(bs, safe) ==
    IF bs = << >> THEN << >>
    ELSE (IF Head(bs) \in safe THEN << Chr(Head(bs)) >> ELSE PercentByte(Head(bs)))
         \o QuoteBytes(Tail(bs), safe)

RECURSIVE EncodeUtf8(_)
EncodeUtf8(s) == IF s = << >> THEN << >> ELSE Utf8(Head(s)) \o EncodeUtf8(Tail(s))

quote_mutant(s) == QuoteBytes(EncodeUtf8(s), QuoteSafe \cup { Ord("%") })

\* urllib.parse.quote(s): UTF-8 encode, then escape every byte outside safe.
quote(s) == QuoteBytes(EncodeUtf8(s), QuoteSafe)

\* ------------------------------------------------------- Python helpers
\* Python's None, where a record or a number is expected.
None == [None |-> TRUE]

\* Python's None, where a string is expected: a tuple that is no string of
\* characters, and differs from the empty string << >>.
NoStr == << "None" >>

\* bool(v) is False for None and for the empty string.
Falsy(v) == v = NoStr \/ v = << >>

Min(a, b) == IF a <= b THEN a ELSE b

\* dict.get(key, default)
DictGet(d, key, default) == IF key \in DOMAIN d THEN d[key] ELSE default

\* s[:n]
Prefix(s, n) == SubSeq(s, 1, Min(n, Len(s)))

\* str.split(sep) for a one-character separator.
RECURSIVE Split(_, _)
Split(s, sep) ==
    IF \A i \in 1..Len(s) : s[i] # sep THEN << s >>
    ELSE LET i == CHOOSE k \in 1..Len(s) : s[k] = sep /\ \A j \in 1..(k - 1) : s[j] # sep
         IN  << SubSeq(s, 1, i - 1) >> \o Split(SubSeq(s, i + 1, Len(s)), sep)

EN == << "e", "n" >>

RU == << "r", "u" >>

get_user_language_mutant(headers) ==
    DictGet(headers, "Accept-Language", EN)

\* get_user_language: the first comma-separated segment of Accept-Language,
\* 'en' when the header is absent.
get_user_language(headers) ==
    Split(DictGet(headers, "Accept-Language", EN), ",")[1]

\* The message table of get_error_messages (Russian texts transliterated,
\* backticks written as apostrophes).
messages ==
    (400 :> (EN :> "Invalid or missing query parameters: 'type' and 'ref' are required."
             @@ RU :> "Nekorrektnye ili otsutstvuyushchie parametry zaprosa: 'type' i 'ref' obyazatelny.")
     @@ 404 :> (EN :> "Document not found" @@ RU :> "Dokument ne najden")
     @@ 409 :> (EN :> "Document not signed" @@ RU :> "Dokument ne podpisan")
     @@ 500 :> (EN :> "Service is unavailable" @@ RU :> "Servis nedostupen"))

\* get_error_messages: the default handed to .get() is the string 'en'.
get_error_messages(error_code, lang) ==
    IF error_code \notin DOMAIN messages
    THEN DictGet(messages[500], lang, "en")
    ELSE DictGet(messages[error_code], lang, "en")

\* CustomError(status_code, message, lang, error_code)
CustomError(status_code, message, lang, error_code) ==
    [status_code |-> status_code, message |-> message, lang |-> lang,
     error_code |-> error_code]

\* ------------------------------------------------------ upstream payload
\* A JSON object is a function from its keys; the Cyrillic keys are
\* transliterated.  Leaf values are opaque strings.
DocumentFields == { "Naimenovanie", "NomerDokumenta", "DataRegistracii", "Zaregistriroval" }

SignFields == { "OtkrytyjKlyuch", "UstanovivshijPodpis", "DataPodpisi", "DataNachala",
                "DataOkonchaniya", "KemVydan", "KomuVydan" }

FileFields == { "PrikreplyonnyjFajl", "DataPodpisi", "UstanovivshijPodpis", "PrikrepivshijFajl" }

PersonFields == { "Dolzhnost", "Ispolnitel", "DataIspolneniya", "RezultatSoglasovaniya",
                  "RezultatVypolneniya" }

QRFields == { "DvoichnyeDannyeQRKoda", "OriginalSsylki" }

\* The subscripts of lines 164-208 that raise KeyError on this payload.
KeyErrorIn(request_data) ==
    \/ IF "DannyeDokumenta" \notin DOMAIN request_data THEN TRUE
       ELSE ~(DocumentFields \subseteq DOMAIN request_data["DannyeDokumenta"])
    \/ /\ "DannyePodpisi" \in DOMAIN request_data
       /\ ~(SignFields \subseteq DOMAIN request_data["DannyePodpisi"])
    \/ /\ "DannyeFajlov" \in DOMAIN request_data
       /\ \E file \in DOMAIN request_data["DannyeFajlov"] :
             ~(FileFields \subseteq DOMAIN request_data["DannyeFajlov"][file])
    \/ /\ "DannyeVizSoglasovaniya" \in DOMAIN request_data
       /\ \E index \in 1..Len(request_data["DannyeVizSoglasovaniya"]) :
             ~(PersonFields \subseteq DOMAIN request_data["DannyeVizSoglasovaniya"][index])
    \/ /\ "DannyeQR" \in DOMAIN request_data
       /\ ~(QRFields \subseteq DOMAIN request_data["DannyeQR"])

\* lines 163-172
document_data(request_data) ==
    [document_name |-> request_data["DannyeDokumenta"]["Naimenovanie"],
     document_number |-> request_data["DannyeDokumenta"]["NomerDokumenta"],
     registration_date |-> request_data["DannyeDokumenta"]["DataRegistracii"],
     registered_by |-> request_data["DannyeDokumenta"]["Zaregistriroval"],
     prepared_by |-> DictGet(request_data["DannyeDokumenta"], "Podgotovil", "")]

\* lines 173-184
sign_data(request_data) ==
    [signed_by |-> request_data["DannyePodpisi"]["UstanovivshijPodpis"],
     sign_date |-> request_data["DannyePodpisi"]["DataPodpisi"],
     start_time |-> request_data["DannyePodpisi"]["DataNachala"],
     end_time |-> request_data["DannyePodpisi"]["DataOkonchaniya"],
     provider |-> request_data["DannyePodpisi"]["KemVydan"],
     receiver |-> request_data["DannyePodpisi"]["KomuVydan"],
     open_key |-> request_data["DannyePodpisi"]["OtkrytyjKlyuch"]]

\* lines 185-194: one record per file, under the file's own key
attached_files(files) ==
    [file \in DOMAIN files |->
        [name |-> files[file]["PrikreplyonnyjFajl"],
         sign_date |-> files[file]["DataPodpisi"],
         signed_by |-> files[file]["UstanovivshijPodpis"],
         attached_by |-> files[file]["PrikrepivshijFajl"]]]

person_record(person) ==
    [role |-> person["Dolzhnost"],
     name |-> person["Ispolnitel"],
     sign_date |-> person["DataIspolneniya"],
     approvement_mark |-> person["RezultatSoglasovaniya"],
     comment |-> person["RezultatVypolneniya"]]

approvement_data_mutant(persons) ==
    [index \in 1..Len(persons) |-> person_record(persons[index])]

\* lines 195-204: enumerate() numbers the entries from 0
approvement_data(persons) ==
    [index \in 0..(Len(persons) - 1) |-> person_record(persons[index + 1])]

qr_data(request_data) ==
    [qr_binary |-> request_data["DannyeQR"]["DvoichnyeDannyeQRKoda"],
     qr_link |-> request_data["DannyeQR"]["OriginalSsylki"]]

qr_section_mutant(request_data) ==
    IF "DannyeQR" \in DOMAIN request_data
    THEN "qr_data" :> qr_data(request_data)
    ELSE "qr_data" :> [qr_binary |-> "", qr_link |-> ""]

\* lines 205-209
qr_section(request_data) ==
    IF "DannyeQR" \in DOMAIN request_data
    THEN "qr_data" :> qr_data(request_data)
    ELSE << >>

\* lines 161-209: the dictionary data handed to the main template
MapData(request_data) ==
    ("document_data" :> document_data(request_data))
    @@ (IF "DannyePodpisi" \in DOMAIN request_data
        THEN "sign_data" :> sign_data(request_data) ELSE << >>)
    @@ (IF "DannyeFajlov" \in DOMAIN request_data
        THEN "attached_files" :> attached_files(request_data["DannyeFajlov"]) ELSE << >>)
    @@ (IF "DannyeVizSoglasovaniya" \in DOMAIN request_data
        THEN "approvement_data" :> approvement_data(request_data["DannyeVizSoglasovaniya"])
        ELSE << >>)
    @@ qr_section(request_data)

\* ------------------------------------------------------------ input sets
Restrict(f, keys) == [k \in keys |-> f[k]]

SeqsUpTo(S, n) == UNION { [1..k -> S] : k \in 0..n }

DocumentComplete ==
    [Naimenovanie |-> "Contract", NomerDokumenta |-> "N-17", DataRegistracii |-> "2024-01-10",
     Zaregistriroval |-> "Sidorov", Podgotovil |-> "Orlova"]

SignComplete ==
    [OtkrytyjKlyuch |-> "30 82 01", UstanovivshijPodpis |-> "Ivanov", DataPodpisi |-> "2024-01-11",
     DataNachala |-> "2023-06-01", DataOkonchaniya |-> "2024-06-01", KemVydan |-> "CA",
     KomuVydan |-> "Ivanov"]

FileComplete(n) ==
    [PrikreplyonnyjFajl |-> n, DataPodpisi |-> "2024-01-11", UstanovivshijPodpis |-> "Ivanov",
     PrikrepivshijFajl |-> "Orlova"]

Person(role, name) ==
    [Dolzhnost |-> role, Ispolnitel |-> name, DataIspolneniya |-> "2024-01-12",
     RezultatSoglasovaniya |-> "approved", RezultatVypolneniya |-> "ok"]

QRComplete == [DvoichnyeDannyeQRKoda |-> "iVBORw0KGgo", OriginalSsylki |-> "https://ecp/doc"]

DocumentOptions ==
    { << >> } \cup
    { "DannyeDokumenta" :> d :
        d \in { DocumentComplete,
                Restrict(DocumentComplete, DOMAIN DocumentComplete \ { "Podgotovil" }),
                Restrict(DocumentComplete, DOMAIN DocumentComplete \ { "Naimenovanie" }) } }

SignOptions ==
    { << >> } \cup
    { "DannyePodpisi" :> d :
        d \in { SignComplete, Restrict(SignComplete, SignFields \ { "KemVydan" }) } }

FilesOptions ==
    { << >> } \cup
    { "DannyeFajlov" :> d :
        d \in { << >>,
                "f1" :> FileComplete("a.pdf"),
                "f1" :> FileComplete("a.pdf") @@ "f2" :> FileComplete("b.pdf"),
                "f1" :> Restrict(FileComplete("a.pdf"), FileFields \ { "PrikrepivshijFajl" }) } }

Persons ==
    { Person("Director", "Ivanov"), Person("Accountant", "Petrova"),
      Restrict(Person("Lawyer", "Smirnov"), PersonFields \ { "RezultatVypolneniya" }) }

ApprovalOptions ==
    { << >> } \cup { "DannyeVizSoglasovaniya" :> d : d \in SeqsUpTo(Persons, MaxApprovals) }

QROptions ==
    { << >> } \cup
    { "DannyeQR" :> d : d \in { QRComplete, Restrict(QRComplete, { "OriginalSsylki" }) } }

\* The JSON objects the upstream may answer a 200 with.
Payloads ==
    { d @@ s @@ f @@ a @@ q :
        d \in DocumentOptions, s \in SignOptions, f \in FilesOptions,
        a \in ApprovalOptions, q \in QROptions }

\* The statuses the upstream may answer with.
UpstreamStatuses == { 200, 201, 400, 403, 404, 409, 500, 503 }

\* What requests.request() may end in: a requests.ConnectionError, a
\* transport failure of another class (the connection breaking while the
\* body is read raises ChunkedEncodingError), or a response.  The body of a
\* response is a JSON object or is not JSON.
Outcomes ==
    { [raises |-> "ConnectionError"], [raises |-> "ChunkedEncodingError"] }
    \cup { [status_code |-> 200, body |-> [json |-> p]] : p \in Payloads }
    \cup { [status_code |-> c, body |-> [text |-> "not json"]] : c \in UpstreamStatuses }

Invoice == << "I", "n", "v", "o", "i", "c", "e" >>

RuHeader == << "r", "u", "-", "R", "U", ",", "e", "n", ";", "q", "=", "0", ".", "9" >>

\* An incoming request: its query arguments and its headers, both dictionaries.
Request(type, ref, lang) ==
    [args |-> (IF type = NoStr THEN << >> ELSE "type" :> type)
              @@ (IF ref = NoStr THEN << >> ELSE "ref" :> ref),
     headers |-> IF lang = NoStr THEN << >> ELSE "Accept-Language" :> lang]

HeaderChars == { "e", "n", "r", "u", "," }

ArgChars == { "A", "/", "&", "%", "4", "1", "U+00E9" }

\* The requests of Spec: a few arguments and headers, every upstream answer.
Requests ==
    { Request(t, r, l) :
        t \in { NoStr, << >>, Invoice },
        r \in { NoStr, << >>, << "A", "/", "B" >> },
        l \in { NoStr, RuHeader, << "f", "r" >>, EN } }

\* The requests of SpecLang: every short Accept-Language header.
LangRequests ==
    { Request(t, r, l) :
        t \in { NoStr, << >>, Invoice },
        r \in { NoStr, << "1" >> },
        l \in { NoStr, RuHeader, << "f", "r" >> } \cup SeqsUpTo(HeaderChars, MaxHeaderLen) }

\* The requests of SpecQuote: every short type and ref.
QuoteRequests ==
    { Request(t, r, l) :
        t \in { NoStr } \cup SeqsUpTo(ArgChars, MaxArgLen),
        r \in { NoStr, << "A", "/", "B" >>, << "U+0414", " ", "~" >> },
        l \in { NoStr } }

\* ----------------------------------------------------------------- state
VARIABLES
    inc_req,             \* the incoming request
    pc,                  \* where the handling of the request stands
    status_code, doc_type, ref_type, preferred_language, message,
    full_req_url,        \* the encoded type and ref of the upstream URL
    outbound,            \* the upstream calls issued so far
    request,             \* the upstream response (the source's name)
    request_data, data,
    error,               \* the CustomError raised, if any
    defect,              \* the exception that left get_doc unhandled, if any
    rendered,            \* the templates rendered so far
    reply                \* the (body, status) returned to the caller

vars == << inc_req, pc, status_code, doc_type, ref_type, preferred_language, message,
           full_req_url, outbound, request, request_data, data, error, defect,
           rendered, reply >>

InitWith(reqs) ==
    /\ inc_req \in reqs
    /\ pc = "read"
    /\ status_code = None /\ doc_type = NoStr /\ ref_type = NoStr
    /\ preferred_language = NoStr /\ message = None /\ full_req_url = None
    /\ outbound = << >> /\ request = None /\ request_data = None /\ data = None
    /\ error = None /\ defect = None /\ rendered = << >> /\ reply = None

Init == InitWith(Requests)

InitLang == InitWith(LangRequests)

InitQuote == InitWith(QuoteRequests)

\* --------------------------------------------------------------- actions
\* raise CustomError(status_code, message, preferred_language, status_code)
Raise(code) ==
    /\ status_code' = code
    /\ message' = get_error_messages(code, preferred_language)
    /\ error' = CustomError(code, get_error_messages(code, preferred_language),
                            preferred_language, code)
    /\ pc' = "raised"

\* lines 134-137: read the arguments and resolve the language
ReadRequest ==
    /\ pc = "read"
    /\ status_code' = 200
    /\ doc_type' = DictGet(inc_req.args, "type", NoStr)
    /\ ref_type' = DictGet(inc_req.args, "ref", NoStr)
    /\ preferred_language' = Prefix(get_user_language(inc_req.headers), 2)
    /\ pc' = "validate"
    /\ UNCHANGED << inc_req, message, full_req_url, outbound, request, request_data,
                    data, error, defect, rendered, reply >>

\* lines 138-141: both arguments are required
Validate ==
    /\ pc = "validate"
    /\ \/ /\ Falsy(doc_type) \/ Falsy(ref_type)
          /\ Raise(400)
       \/ /\ ~(Falsy(doc_type) \/ Falsy(ref_type))
          /\ pc' = "build"
          /\ UNCHANGED << status_code, message, error >>
    /\ UNCHANGED << inc_req, doc_type, ref_type, preferred_language, full_req_url,
                    outbound, request, request_data, data, defect, rendered, reply >>

\* lines 142-145: the upstream URL, f'{req_base_url}?type={..}&ref={..}'
BuildUrl ==
    /\ pc = "build"
    /\ full_req_url' = [base |-> "req_base_url", type |-> quote(doc_type),
                        ref |-> quote(ref_type)]
    /\ pc' = "call"
    /\ UNCHANGED << inc_req, status_code, doc_type, ref_type, preferred_language,
                    message, outbound, request, request_data, data, error, defect,
                    rendered, reply >>

\* lines 146-152: the outbound GET; only ConnectionError is caught
CallUpstream ==
    /\ pc = "call"
    /\ outbound' = Append(outbound, full_req_url)
    /\ \E outcome \in Outcomes :
          \/ /\ "raises" \in DOMAIN outcome
             /\ outcome.raises = "ConnectionError"
             /\ Raise(500)
             /\ UNCHANGED << request, defect >>
          \/ /\ "raises" \in DOMAIN outcome
             /\ outcome.raises # "ConnectionError"
             /\ defect' = outcome.raises
             /\ pc' = "defect"
             /\ UNCHANGED << status_code, message, error, request >>
          \/ /\ "raises" \notin DOMAIN outcome
             /\ request' = outcome
             /\ pc' = "status"
             /\ UNCHANGED << status_code, message, error, defect >>
    /\ UNCHANGED << inc_req, doc_type, ref_type, preferred_language, full_req_url,
                    request_data, data, rendered, reply >>

CheckStatus_mutant ==
    /\ pc = "status"
    /\ \/ /\ 200 # request.status_code
          /\ status_code' = request.status_code
          /\ message' = get_error_messages(request.status_code, preferred_language)
          /\ error' = CustomError(request.status_code, message', preferred_language,
                                  request.status_code)
          /\ pc' = "call"
       \/ /\ 200 = request.status_code
          /\ pc' = "json"
          /\ UNCHANGED << status_code, message, error >>
    /\ UNCHANGED << inc_req, doc_type, ref_type, preferred_language, full_req_url,
                    outbound, request, request_data, data, defect, rendered, reply >>

\* lines 153-156: any status but 200 is raised with the upstream's code
CheckStatus ==
    /\ pc = "status"
    /\ \/ /\ 200 # request.status_code
          /\ Raise(request.status_code)
       \/ /\ 200 = request.status_code
          /\ pc' = "json"
          /\ UNCHANGED << status_code, message, error >>
    /\ UNCHANGED << inc_req, doc_type, ref_type, preferred_language, full_req_url,
                    outbound, request, request_data, data, defect, rendered, reply >>

\* lines 157-160: request.json() raises on a body that is not JSON
ParseJson ==
    /\ pc = "json"
    /\ \/ /\ "json" \in DOMAIN request.body
          /\ request_data' = request.body.json
          /\ pc' = "map"
          /\ UNCHANGED defect
       \/ /\ "json" \notin DOMAIN request.body
          /\ defect' = "JSONDecodeError"
          /\ pc' = "defect"
          /\ UNCHANGED request_data
    /\ UNCHANGED << inc_req, status_code, doc_type, ref_type, preferred_language,
                    message, full_req_url, outbound, request, data, error, rendered,
                    reply >>

\* lines 161-209: build data; a missing key raises KeyError
MapPayload ==
    /\ pc = "map"
    /\ IF KeyErrorIn(request_data)
       THEN /\ defect' = "KeyError"
            /\ pc' = "defect"
            /\ UNCHANGED data
       ELSE /\ data' = MapData(request_data)
            /\ pc' = "render"
            /\ UNCHANGED defect
    /\ UNCHANGED << inc_req, status_code, doc_type, ref_type, preferred_language,
                    message, full_req_url, outbound, request, request_data, error,
                    rendered, reply >>

\* line 210: return render_template('main_page.html', **data), status_code
RenderMain ==
    /\ pc = "render"
    /\ rendered' = Append(rendered, [template |-> "main_page.html", context |-> data])
    /\ reply' = [body |-> [template |-> "main_page.html", context |-> data],
                 status |-> status_code]
    /\ pc' = "done"
    /\ UNCHANGED << inc_req, status_code, doc_type, ref_type, preferred_language,
                    message, full_req_url, outbound, request, request_data, data,
                    error, defect >>

\* lines 213-222: the error view, returned with the error's status code
handle_custom_error ==
    /\ pc = "raised"
    /\ LET view == [template |-> "error_page.html",
                    context |-> [message |-> error.message, lang |-> error.lang,
                                 error_code |-> error.error_code]]
       IN  /\ rendered' = Append(rendered, view)
           /\ reply' = [body |-> view, status |-> error.status_code]
    /\ pc' = "done"
    /\ UNCHANGED << inc_req, status_code, doc_type, ref_type, preferred_language,
                    message, full_req_url, outbound, request, request_data, data,
                    error, defect >>

\* The whole handling of one request.
Next ==
    \/ ReadRequest
    \/ Validate
    \/ BuildUrl
    \/ CallUpstream
    \/ CheckStatus
    \/ ParseJson
    \/ MapPayload
    \/ RenderMain
    \/ handle_custom_error

Spec == Init /\ [][Next]_vars

\* The handling up to the outbound call, for the claims about the inputs.
NextFront ==
    \/ ReadRequest
    \/ Validate
    \/ BuildUrl
    \/ handle_custom_error

SpecLang == InitLang /\ [][NextFront]_vars

SpecQuote == InitQuote /\ [][NextFront]_vars

\* ---------------------------------------------------- stated behaviour
\* The message the specification promises for a code and a locale: the entry
\* of the code (of 500 for an unknown code) in the locale, in English when the
\* locale has no entry.
LocalizedMessage(code, lang) ==
    LET entry == IF code \in DOMAIN messages THEN messages[code] ELSE messages[500]
    IN  IF lang \in DOMAIN entry THEN entry[lang] ELSE entry[EN]

\* Whether the reply is the error view with this status and message.
ErrorReply(status, text) ==
    /\ reply # None
    /\ reply.status = status
    /\ reply.body.template = "error_page.html"
    /\ reply.body.context.message = text

\* Percent-decoding as the upstream does it: %XX is a byte, anything else is
\* itself; the bytes are then read as UTF-8.
HexValue(c) ==
    IF c \in { HexDigits[i] : i \in 1..16 }
    THEN (CHOOSE i \in 1..16 : HexDigits[i] = c) - 1
    ELSE IF c \in { "a", "b", "c", "d", "e", "f" } THEN Ord(c) - 87
    ELSE -1

RECURSIVE PercentDecodeBytes(_)
PercentDecodeBytes(s) ==
    IF s = << >> THEN << >>
    ELSE IF Head(s) = "%" /\ Len(s) >= 3 /\ HexValue(s[2]) >= 0 /\ HexValue(s[3]) >= 0
         THEN << 16 * HexValue(s[2]) + HexValue(s[3]) >>
              \o PercentDecodeBytes(SubSeq(s, 4, Len(s)))
         ELSE Utf8(Head(s)) \o PercentDecodeBytes(Tail(s))

RECURSIVE DecodeUtf8(_)
DecodeUtf8(bs) ==
    IF bs = << >> THEN << >>
    ELSE IF 32 <= Head(bs) /\ Head(bs) <= 126
         THEN << Chr(Head(bs)) >> \o DecodeUtf8(Tail(bs))
    ELSE IF Len(bs) >= 2 /\ SubSeq(bs, 1, 2) = << 195, 169 >>
         THEN << "U+00E9" >> \o DecodeUtf8(SubSeq(bs, 3, Len(bs)))
    ELSE IF Len(bs) >= 2 /\ SubSeq(bs, 1, 2) = << 208, 148 >>
         THEN << "U+0414" >> \o DecodeUtf8(SubSeq(bs, 3, Len(bs)))
    ELSE << "U+FFFD" >> \o DecodeUtf8(Tail(bs))

PercentDecode(s) == DecodeUtf8(PercentDecodeBytes(s))

\* The unreserved characters of a URL: letters, digits and "-._~".
Unreserved == { Chr(b) : b \in AlwaysSafe }

\* Every "%" of s starts an escape %XX with upper-case hexadecimal digits.
WellEscaped(s) ==
    \A i \in 1..Len(s) :
        s[i] = "%" =>
            /\ i + 2 <= Len(s)
            /\ s[i + 1] \in { HexDigits[k] : k \in 1..16 }
            /\ s[i + 2] \in { HexDigits[k] : k \in 1..16 }

AslashB == << "A", "/", "B" >>

ValidationFails ==
    \/ "type" \notin DOMAIN inc_req.args
    \/ inc_req.args["type"] = << >>
    \/ "ref" \notin DOMAIN inc_req.args
    \/ inc_req.args["ref"] = << >>

\* ---------------------------------------------------------------- claims
\* C1: a request whose type or ref is missing or empty is answered, whatever
\* its Accept-Language header, with status 400 and the "invalid parameters"
\* message of the resolved locale.
C1_BadRequestLocalized ==
    (pc = "done" /\ ValidationFails)
        => ErrorReply(400, LocalizedMessage(400, preferred_language))

\* C2: an upstream 404 (409) is answered with status 404 (409) and the
\* "document not found" ("document not signed") text of the resolved locale.
C2_NotFoundConflictLocalized ==
    (pc = "done" /\ request # None /\ request.status_code \in { 404, 409 })
        => ErrorReply(request.status_code,
                      LocalizedMessage(request.status_code, preferred_language))

\* C3: an upstream status that is not 200 and not in {400, 404, 409, 500} is
\* answered with the 500 message, while the HTTP status and the error_code of
\* the error both equal the upstream status.
C3_UnknownStatusFallback ==
    (pc = "done" /\ request # None
        /\ request.status_code \notin { 200, 400, 404, 409, 500 })
        => /\ ErrorReply(request.status_code, LocalizedMessage(500, preferred_language))
           /\ reply.body.context.error_code = request.status_code

\* C4: for every code and every locale without an entry in the table of the
\* code, get_error_messages returns the English text of the selected entry.
C4_EnglishFallback ==
    (error # None /\ error.lang \notin { EN, RU })
        => error.message = get_error_messages(error.error_code, EN)

\* C5: the locale is the first two characters of the first comma-separated
\* segment of Accept-Language, and en when the header is absent.
C5_LocaleResolution ==
    pc # "read" =>
        LET header == IF "Accept-Language" \in DOMAIN inc_req.headers
                      THEN inc_req.headers["Accept-Language"] ELSE EN
            n == Len(preferred_language)
        IN  /\ n <= 2
            /\ n <= Len(header)
            /\ \A i \in 1..n : preferred_language[i] = header[i] /\ header[i] # ","
            /\ n < 2 => (Len(header) = n \/ header[n + 1] = ",")
            /\ header = RuHeader => preferred_language = RU
            /\ inc_req.headers = << >> => preferred_language = EN

C5_Witness ==
    /\ pc = "validate"
    /\ "Accept-Language" \in DOMAIN inc_req.headers
    /\ inc_req.headers["Accept-Language"] = RuHeader
    /\ preferred_language = RU

\* C6: a transport failure of the outbound call is answered with the error
\* view, status 500 and the "service unavailable" message of the resolved
\* locale; none leaves the handler unhandled.
C6_TransportFailureHandled ==
    (Len(outbound) = 1 /\ request = None /\ pc # "raised")
        => /\ pc = "done"
           /\ ErrorReply(500, LocalizedMessage(500, preferred_language))

DataKeys == { "document_data", "sign_data", "attached_files", "approvement_data", "qr_data" }

\* C7: the keys of a mapped Presentation Model are among the five of
\* DataKeys, and each is present exactly when its upstream section is.
C7_KeysFollowSections ==
    (pc \in { "render", "done" } /\ data # None) =>
        /\ DOMAIN data \subseteq DataKeys
        /\ "document_data" \in DOMAIN data <=> "DannyeDokumenta" \in DOMAIN request_data
        /\ "sign_data" \in DOMAIN data <=> "DannyePodpisi" \in DOMAIN request_data
        /\ "attached_files" \in DOMAIN data <=> "DannyeFajlov" \in DOMAIN request_data
        /\ "approvement_data" \in DOMAIN data
               <=> "DannyeVizSoglasovaniya" \in DOMAIN request_data
        /\ "qr_data" \in DOMAIN data <=> "DannyeQR" \in DOMAIN request_data

C7_Witness ==
    /\ pc = "done"
    /\ data # None
    /\ DOMAIN request_data = { "DannyeDokumenta" }
    /\ DOMAIN data = { "document_data" }
    /\ reply.body.template = "main_page.html"

\* C8: without an approval section there is no approvement_data; a section of
\* N entries gives a mapping with the keys 0..N-1 whose record i is built from
\* entry i of the list.
C8_ApprovalsReindexed ==
    (pc \in { "render", "done" } /\ data # None) =>
        IF "DannyeVizSoglasovaniya" \notin DOMAIN request_data
        THEN "approvement_data" \notin DOMAIN data
        ELSE LET persons == request_data["DannyeVizSoglasovaniya"]
                 approvals == data["approvement_data"]
             IN  /\ DOMAIN approvals = 0..(Len(persons) - 1)
                 /\ \A i \in 0..(Len(persons) - 1) :
                       /\ approvals[i].role = persons[i + 1]["Dolzhnost"]
                       /\ approvals[i].name = persons[i + 1]["Ispolnitel"]
                       /\ approvals[i].sign_date = persons[i + 1]["DataIspolneniya"]
                       /\ approvals[i].approvement_mark
                              = persons[i + 1]["RezultatSoglasovaniya"]
                       /\ approvals[i].comment = persons[i + 1]["RezultatVypolneniya"]

C8_Witness ==
    /\ pc = "done"
    /\ data # None
    /\ "DannyeVizSoglasovaniya" \in DOMAIN request_data
    /\ Len(request_data["DannyeVizSoglasovaniya"]) = 2
    /\ DOMAIN data["approvement_data"] = { 0, 1 }
    /\ data["approvement_data"][0].name = "Petrova"
    /\ data["approvement_data"][1].name = "Ivanov"

Templates == { rendered[i].template : i \in 1..Len(rendered) }

\* C9: one request issues at most one outbound call and renders at most one
\* template, in the order validation, call, status check, mapping, render:
\* the call follows a successful validation, the main view follows an
\* upstream 200 and a mapped payload, and a handled failure renders the error
\* view alone.
C9_OneCallOneRender ==
    /\ Len(outbound) <= 1
    /\ Len(rendered) <= 1
    /\ Len(outbound) = 1 =>
          /\ pc \notin { "read", "validate", "build", "call" }
          /\ ~Falsy(doc_type) /\ ~Falsy(ref_type)
    /\ request # None => Len(outbound) = 1
    /\ data # None => (request # None /\ request.status_code = 200 /\ request_data # None)
    /\ "main_page.html" \in Templates =>
          /\ pc = "done"
          /\ data # None
          /\ error = None
          /\ reply.body = rendered[1]
          /\ reply.body.context = data
    /\ error # None =>
          /\ data = None
          /\ "main_page.html" \notin Templates
          /\ pc \in { "raised", "done" }
          /\ pc = "done" => (rendered = << reply.body >>
                             /\ reply.body.template = "error_page.html")
    /\ pc = "defect" => (rendered = << >> /\ reply = None)

C9_Witness ==
    /\ pc = "done"
    /\ Len(outbound) = 1
    /\ request # None
    /\ request.status_code = 404
    /\ Templates = { "error_page.html" }

\* C10, as stated: the value placed in the upstream URL for type and for ref
\* percent-decodes to the original string, holds no reserved character
\* unescaped, and ref=A/B is sent as A%2FB.
C10_AllReservedEscaped ==
    pc = "call" =>
        /\ PercentDecode(full_req_url.type) = doc_type
        /\ PercentDecode(full_req_url.ref) = ref_type
        /\ \A i \in 1..Len(full_req_url.type) :
              full_req_url.type[i] \in Unreserved \cup { "%" }
        /\ \A i \in 1..Len(full_req_url.ref) :
              full_req_url.ref[i] \in Unreserved \cup { "%" }
        /\ ref_type = AslashB => full_req_url.ref = << "A", "%", "2", "F", "B" >>

\* C10, amended: the value percent-decodes to the original string; every
\* character but letters, digits, "-._~" and "/" is escaped as %XX, the
\* slash is left as it is, so that ref=A/B is sent as A/B.
C10_RoundTripSlashKept ==
    pc = "call" =>
        /\ PercentDecode(full_req_url.type) = doc_type
        /\ PercentDecode(full_req_url.ref) = ref_type
        /\ WellEscaped(full_req_url.type) /\ WellEscaped(full_req_url.ref)
        /\ \A i \in 1..Len(full_req_url.type) :
              full_req_url.type[i] \in Unreserved \cup { "%", "/" }
        /\ \A i \in 1..Len(full_req_url.ref) :
              full_req_url.ref[i] \in Unreserved \cup { "%", "/" }
        /\ Len(full_req_url.type) =
              3 * Len(EncodeUtf8(doc_type))
              - 2 * Cardinality({ i \in 1..Len(doc_type) :
                                    doc_type[i] \in Unreserved \cup { "/" } })
        /\ ref_type = AslashB => full_req_url.ref = AslashB

C10_Witness ==
    /\ pc = "call"
    /\ doc_type = << "%", "4", "1" >>
    /\ full_req_url.type = << "%", "2", "5", "4", "1" >>
    /\ ref_type = AslashB
    /\ full_req_url.ref = AslashB

====
